---------------------------- MODULE Spec2Model ----------------------------
(***************************************************************************)
(* Versioned notifications of ironic: ironic/objects/notification.py       *)
(* (EventType, NotificationBase, NotificationPayloadBase,                  *)
(* NotificationPublisher) on top of the process-wide notifier handles of   *)
(* ironic/common/rpc.py.                                                   *)
(*                                                                         *)
(* Python values that may be None are records: None is the record          *)
(* [type |-> "NoneType"], a string s that may be None is Str(s).  An       *)
(* object's fields are a function whose DOMAIN is the set of fields that   *)
(* are set, so obj_attr_is_set(f) is f \in DOMAIN.                         *)
(***************************************************************************)
EXTENDS Integers, Sequences, FiniteSets, TLC

VARIABLES
    CONF_notification_priority, \* CONF.notification_priority
    TRANSPORT,                  \* rpc.TRANSPORT
    NOTIFICATION_TRANSPORT,     \* rpc.NOTIFICATION_TRANSPORT
    METRICS_NOTIFIER,           \* rpc.METRICS_NOTIFIER
    VERSIONED_NOTIFIER,         \* rpc.VERSIONED_NOTIFIER
    notif,                      \* the notification under construction / emitted
    populate_called,            \* populate_schema was called on its payload
    last,                       \* the last operation: its name, inputs, outcome
    from_nodes,                 \* PortsController.from_nodes of the controller
    db_nodes,                   \* the nodes in the database
    db_ports,                   \* the ports in the database, by uuid
    port                        \* the API Port object a caller holds

vars == <<CONF_notification_priority, TRANSPORT, NOTIFICATION_TRANSPORT,
          METRICS_NOTIFIER, VERSIONED_NOTIFIER, notif, populate_called,
          last, from_nodes, db_nodes, db_ports, port>>

rpc_vars == <<TRANSPORT, NOTIFICATION_TRANSPORT, METRICS_NOTIFIER,
              VERSIONED_NOTIFIER>>

\* the state of the notification framework
notification_vars ==
    <<CONF_notification_priority, rpc_vars, notif, populate_called>>

\* the state of the ports API
port_vars == <<from_nodes, db_nodes, db_ports, port>>

---------------------------------------------------------------------------
(* Bounds of the model *)

\* emit is called at most MaxEmits times in a row
MaxEmits == 3

---------------------------------------------------------------------------
(* Python values *)

None == [type |-> "NoneType"]
Str(s) == [type |-> "str", value |-> s]

\* fields.NotificationPriority.ALL, in the order of notify_priorities
ALL == {"debug", "info", "warn", "error"}

\* Values the notification_priority option can hold.  The option's choices
\* are list(ALL).append(None), which is None: the option accepts any string.
ConfigValues == {None} \cup {Str(p) : p \in ALL} \cup {Str("critical")}

\* Exception names; NoException is a call that returned
NoException == "None"

---------------------------------------------------------------------------
(* The classes of the unit test, which subclass the bases *)

\* TestNotificationPayload.SCHEMA and TestNotificationPayloadEmptySchema.SCHEMA:
\* payload field -> <<data source name, field of the data source>>
SCHEMA(cls) ==
    IF cls = "TestNotificationPayload"
    THEN [fake_field_1 |-> <<"test_obj", "fake_field_1">>,
          fake_field_2 |-> <<"test_obj", "fake_field_2">>]
    ELSE <<>>

PayloadClasses == {"TestNotificationPayload", "TestNotificationPayloadEmptySchema"}

\* the value a caller assigns to a payload field directly (a keyword argument
\* of the constructor, or an attribute assignment)
DirectValue(field) ==
    CASE field = "an_extra_field" -> "extra"
      [] field = "fake_field_1"   -> "old"
      [] field = "fake_field"     -> "123"

\* the fields a caller passes to the payload constructor
ConstructorFields(cls) ==
    IF cls = "TestNotificationPayload"
    THEN {"an_extra_field", "fake_field_1"}
    ELSE {"fake_field"}

\* keyword arguments of a payload constructor: none, or every such field
PayloadKwargs(cls) ==
    {[f \in D |-> DirectValue(f)] : D \in {{}, ConstructorFields(cls)}}

\* the fields a caller assigns after construction: those outside SCHEMA
AssignedFields(cls) ==
    IF cls = "TestNotificationPayload"
    THEN {"an_extra_field"}
    ELSE {"fake_field"}

\* TestObject instances handed to populate_schema: each field set or not
TestObjects ==
    {<<>>,
     [fake_field_1 |-> "fake1"],
     [fake_field_2 |-> 2],
     [fake_field_1 |-> "fake1", fake_field_2 |-> 2]}

\* keyword arguments of a populate_schema call: the data source is passed
\* under its name, or is missing
PopulateKwargs == {<<>>} \cup {[test_obj |-> o] : o \in TestObjects}

EventTypes ==
    {[object |-> "test_object", action |-> "test"]}
    \cup {[object |-> "test_object", action |-> "test", phase |-> ph] :
              ph \in {None, Str("start")}}

Publishers ==
    {[service |-> s, host |-> "host"] : s \in {"ironic-conductor", "ironic-api"}}

Contexts == {"admin_context"}

\* outcomes of handing a message to the transport
Deliveries == {NoException, "MessageDeliveryFailure"}

---------------------------------------------------------------------------
(* oslo.versionedobjects behaviour the notification classes call into *)

\* setattr(obj, field, value) on a versioned object: the field becomes set
\* and is recorded as changed
setattr(obj, field, value) ==
    [obj EXCEPT !.fields = (field :> value) @@ obj.fields,
                !.changed = obj.changed \cup {field}]

\* obj.obj_reset_changes(recursive=False)
obj_reset_changes(obj) == [obj EXCEPT !.changed = {}]

\* obj.obj_to_primitive(): name, namespace, version and the set fields, plus
\* the changed fields when there are any
obj_to_primitive(obj) ==
    LET prim == [name |-> obj.cls, namespace |-> "ironic", version |-> "1.0",
                 data |-> obj.fields]
    IN IF obj.changed = {} THEN prim
       ELSE prim @@ [changes |-> obj.changed]

---------------------------------------------------------------------------
(* ironic/objects/notification.py *)

\* to_notification_event_type_field that formats a phase of None
to_notification_event_type_field_none_formatted(self) ==
    LET s == "baremetal." \o self.object \o "." \o self.action
    IN IF "phase" \in DOMAIN self
       THEN s \o "." \o (IF self.phase = None THEN "None" ELSE self.phase.value)
       ELSE s

\* EventType.to_notification_event_type_field
to_notification_event_type_field(self) ==
    LET s == "baremetal." \o self.object \o "." \o self.action
    IN IF "phase" \in DOMAIN self /\ self.phase # None
       THEN s \o "." \o self.phase.value
       ELSE s

\* the priority ranks of NotificationBase._should_notify
notify_priorities == [debug |-> 0, info |-> 1, warn |-> 2, error |-> 3]

\* _should_notify with a strict comparison
_should_notify_strict(self) ==
    IF CONF_notification_priority = None
    THEN [raised |-> NoException, value |-> FALSE]
    ELSE IF CONF_notification_priority.value \notin DOMAIN notify_priorities
         THEN [raised |-> "KeyError", value |-> FALSE]
         ELSE [raised |-> NoException,
               value |-> notify_priorities[self.priority] >
                         notify_priorities[CONF_notification_priority.value]]

\* _should_notify that takes an unset threshold for the lowest one
_should_notify_unset_lowest(self) ==
    IF CONF_notification_priority = None
    THEN [raised |-> NoException, value |-> TRUE]
    ELSE IF CONF_notification_priority.value \notin DOMAIN notify_priorities
         THEN [raised |-> "KeyError", value |-> FALSE]
         ELSE [raised |-> NoException,
               value |-> notify_priorities[self.priority] >=
                         notify_priorities[CONF_notification_priority.value]]

\* NotificationBase._should_notify: [raised, value]
_should_notify(self) ==
    IF CONF_notification_priority = None
    THEN [raised |-> NoException, value |-> FALSE]
    ELSE IF CONF_notification_priority.value \notin DOMAIN notify_priorities
         THEN [raised |-> "KeyError", value |-> FALSE]
         ELSE [raised |-> NoException,
               value |-> notify_priorities[self.priority] >=
                         notify_priorities[CONF_notification_priority.value]]

\* __init__ that leaves every payload unpopulated
NotificationPayloadBase__init__unpopulated(cls, kwargs) ==
    [cls |-> cls, fields |-> kwargs, changed |-> DOMAIN kwargs,
     populated |-> FALSE]

\* NotificationPayloadBase.__init__: the keyword arguments are assigned to
\* the fields, populated is true exactly for an empty SCHEMA
NotificationPayloadBase__init__(cls, kwargs) ==
    [cls |-> cls, fields |-> kwargs, changed |-> DOMAIN kwargs,
     populated |-> (DOMAIN SCHEMA(cls) = {})]

\* populate_schema's iteration that does not overwrite a field already set
populate_item_keeping(self, key, source, field) ==
    IF field \in DOMAIN source /\ key \notin DOMAIN self.fields
    THEN setattr(self, key, source[field])
    ELSE self

\* one iteration of the loop of populate_schema, for the SCHEMA item
\* key: (obj, field), with source = kwargs[obj]
populate_item(self, key, source, field) ==
    IF field \in DOMAIN source
    THEN setattr(self, key, source[field])
    ELSE self

\* the loop of populate_schema over SCHEMA.items(), in the order `items`:
\* [raised, obj]
RECURSIVE populate_loop(_, _, _)
populate_loop(self, kwargs, items) ==
    IF items = <<>> THEN [raised |-> NoException, obj |-> self]
    ELSE LET key == Head(items)
             obj == SCHEMA(self.cls)[key][1]
             field == SCHEMA(self.cls)[key][2]
         IN IF obj \notin DOMAIN kwargs
            THEN [raised |-> "KeyError", obj |-> self]
            ELSE populate_loop(populate_item(self, key, kwargs[obj], field),
                               kwargs, Tail(items))

\* populate_schema that empties the payload before it copies
populate_schema_from_scratch(self, kwargs, items) ==
    LET r == populate_loop([self EXCEPT !.fields = <<>>, !.changed = {}],
                           kwargs, items)
    IN IF r.raised # NoException THEN r
       ELSE [raised |-> NoException, obj |-> [r.obj EXCEPT !.populated = TRUE]]

\* populate_schema that marks the payload populated only when it copied
populate_schema_when_copied(self, kwargs, items) ==
    LET r == populate_loop(self, kwargs, items)
    IN IF r.raised # NoException THEN r
       ELSE [raised |-> NoException,
             obj |-> [r.obj EXCEPT !.populated = (r.obj # self)]]

\* populate_schema that sets the flag before it copies
populate_schema_flag_first(self, kwargs, items) ==
    populate_loop([self EXCEPT !.populated = TRUE], kwargs, items)

\* NotificationPayloadBase.populate_schema: [raised, obj]
populate_schema(self, kwargs, items) ==
    LET r == populate_loop(self, kwargs, items)
    IN IF r.raised # NoException THEN r
       ELSE [raised |-> NoException, obj |-> [r.obj EXCEPT !.populated = TRUE]]

---------------------------------------------------------------------------
(* ironic/common/rpc.py *)

\* messaging.get_transport / messaging.get_notification_transport
Transport(kind) == [type |-> "Transport", kind |-> kind]

\* messaging.Notifier(transport, serializer=serializer, driver=..., topic=...)
Notifier(transport, options) ==
    [type |-> "Notifier", transport |-> transport.kind] @@ options

\* the versioned notifier of an init that tests the threshold the wrong way
init_versioned_notifier_inverted(conf, transport) ==
    IF conf # None
    THEN Notifier(transport, [driver |-> "noop"])
    ELSE Notifier(transport, [topic |-> "notification"])

\* the versioned notifier rpc.init builds for a configuration
init_versioned_notifier(conf, transport) ==
    IF conf = None
    THEN Notifier(transport, [driver |-> "noop"])
    ELSE Notifier(transport, [topic |-> "notification"])

\* get_versioned_notifier without its assertion: prepare is looked up on None
get_versioned_notifier_unasserted(publisher_id) ==
    IF VERSIONED_NOTIFIER = None
    THEN [raised |-> "AttributeError", calls |-> <<>>, notifier |-> None]
    ELSE [raised |-> NoException,
          calls |-> <<[name |-> "prepare", publisher_id |-> publisher_id]>>,
          notifier |-> VERSIONED_NOTIFIER @@ [publisher_id |-> publisher_id]]

\* cleanup that forgets the two notifiers
cleanup_transports_only ==
    IF \/ TRANSPORT = None
       \/ NOTIFICATION_TRANSPORT = None
       \/ METRICS_NOTIFIER = None
       \/ VERSIONED_NOTIFIER = None
    THEN [raised |-> "AssertionError", cleaned |-> <<>>,
          handles |-> rpc_vars]
    ELSE [raised |-> NoException,
          cleaned |-> <<TRANSPORT.kind, NOTIFICATION_TRANSPORT.kind>>,
          handles |-> <<None, None, METRICS_NOTIFIER, VERSIONED_NOTIFIER>>]

\* rpc.cleanup: [raised, cleaned, handles], cleaned the transports whose
\* cleanup was called, in order, handles the four globals afterwards
cleanup ==
    IF \/ TRANSPORT = None
       \/ NOTIFICATION_TRANSPORT = None
       \/ METRICS_NOTIFIER = None
       \/ VERSIONED_NOTIFIER = None
    THEN [raised |-> "AssertionError", cleaned |-> <<>>,
          handles |-> rpc_vars]
    ELSE [raised |-> NoException,
          cleaned |-> <<TRANSPORT.kind, NOTIFICATION_TRANSPORT.kind>>,
          handles |-> <<None, None, None, None>>]

\* rpc.get_versioned_notifier: [raised, calls, notifier]; prepare returns a
\* notifier bound to publisher_id
get_versioned_notifier(publisher_id) ==
    IF VERSIONED_NOTIFIER = None
    THEN [raised |-> "AssertionError", calls |-> <<>>, notifier |-> None]
    ELSE [raised |-> NoException,
          calls |-> <<[name |-> "prepare", publisher_id |-> publisher_id]>>,
          notifier |-> VERSIONED_NOTIFIER @@ [publisher_id |-> publisher_id]]

---------------------------------------------------------------------------
(* ironic/common/rpc.py: the accessors *)

\* get_server without its assertion: the server is built on whatever
\* TRANSPORT holds
get_server_unasserted ==
    [raised |-> NoException, transport |-> TRANSPORT]

\* rpc.get_client: [raised, transport], the transport the client is built on
get_client ==
    IF TRANSPORT = None
    THEN [raised |-> "AssertionError", transport |-> None]
    ELSE [raised |-> NoException, transport |-> TRANSPORT]

\* rpc.get_server: [raised, transport], the transport the server is built on
get_server ==
    IF TRANSPORT = None
    THEN [raised |-> "AssertionError", transport |-> None]
    ELSE [raised |-> NoException, transport |-> TRANSPORT]

\* rpc.get_metrics_notifier: [raised, calls, notifier]; the publisher_id is
\* built from service and host when none is given
get_metrics_notifier(service, host, publisher_id) ==
    IF METRICS_NOTIFIER = None
    THEN [raised |-> "AssertionError", calls |-> <<>>, notifier |-> None]
    ELSE LET id == IF publisher_id = None \/ publisher_id = Str("")
                   THEN Str(service \o "." \o host)
                   ELSE publisher_id
         IN [raised |-> NoException,
             calls |-> <<[name |-> "prepare", publisher_id |-> id]>>,
             notifier |-> METRICS_NOTIFIER @@ [publisher_id |-> id]]

\* the accessors of the module handles
Accessors ==
    {"get_client", "get_server", "get_metrics_notifier",
     "get_versioned_notifier"}

\* publisher_id arguments of the notifier accessors
PublisherIds == {None, Str(""), Str("ironic-api.host")}

\* the outcome of a call of the accessor `name`
access(name, publisher_id) ==
    CASE name = "get_client" -> get_client.raised
      [] name = "get_server" -> get_server.raised
      [] name = "get_metrics_notifier" ->
             get_metrics_notifier("ironic-conductor", "host", publisher_id).raised
      [] name = "get_versioned_notifier" ->
             get_versioned_notifier(publisher_id).raised

----------------------------------------------------------------------------
(* ironic/objects/notification.py: emission *)

\* the publisher_id with host and service swapped
publisher_id_of_swapped(publisher) == publisher.host \o "." \o publisher.service

\* the publisher_id argument emit builds
publisher_id_of(publisher) == publisher.service \o "." \o publisher.host

\* notify(context, event_type=..., payload=...) on a prepared notifier: the
\* call as the notifier receives it, with what came of it.  The noop driver
\* hands nothing to the transport; any other hands the message over, and the
\* transport accepts it or raises.
notify_call(notifier, name, context, event_type, payload, delivery) ==
    LET noop == "driver" \in DOMAIN notifier
    IN [name |-> name,
        publisher_id |-> notifier.publisher_id,
        context |-> context,
        event_type |-> event_type,
        payload |-> payload,
        raised |-> IF noop THEN NoException ELSE delivery,
        delivered |-> ~noop /\ delivery = NoException]

\* _emit that sends again when the transport fails
_emit_retrying(self, context, event_type, publisher_id, payload, delivery) ==
    LET got == get_versioned_notifier(publisher_id)
    IN IF got.raised # NoException
       THEN [raised |-> got.raised, calls |-> got.calls]
       ELSE LET notify == self.priority
                call == notify_call(got.notifier, notify, context, event_type,
                                    payload, delivery)
                again == notify_call(got.notifier, notify, context, event_type,
                                     payload, NoException)
            IN [raised |-> NoException,
                calls |-> got.calls \o
                          (IF call.raised # NoException
                           THEN <<call, again>> ELSE <<call>>)]

\* _emit that picks the method by the configured threshold
_emit_by_threshold(self, context, event_type, publisher_id, payload, delivery) ==
    LET got == get_versioned_notifier(publisher_id)
    IN IF got.raised # NoException
       THEN [raised |-> got.raised, calls |-> got.calls]
       ELSE LET notify == CONF_notification_priority.value
                call == notify_call(got.notifier, notify, context, event_type,
                                    payload, delivery)
            IN [raised |-> call.raised, calls |-> got.calls \o <<call>>]

\* _emit that swallows what the transport raises
_emit_swallowing(self, context, event_type, publisher_id, payload, delivery) ==
    LET got == get_versioned_notifier(publisher_id)
    IN IF got.raised # NoException
       THEN [raised |-> got.raised, calls |-> got.calls]
       ELSE LET notify == self.priority
                call == notify_call(got.notifier, notify, context, event_type,
                                    payload, delivery)
            IN [raised |-> NoException, calls |-> got.calls \o <<call>>]

\* NotificationBase._emit: [raised, calls].  `delivery` is what the transport
\* does with the message.
_emit(self, context, event_type, publisher_id, payload, delivery) ==
    LET got == get_versioned_notifier(publisher_id)
    IN IF got.raised # NoException
       THEN [raised |-> got.raised, calls |-> got.calls]
       ELSE LET notify == self.priority
                call == notify_call(got.notifier, notify, context, event_type,
                                    payload, delivery)
            IN [raised |-> call.raised, calls |-> got.calls \o <<call>>]

\* emit without its assertion
emit_precondition_absent(self) == TRUE

\* the assertion emit starts with
emit_precondition(self) == self.payload.populated

\* the branch of emit past the gate, with the changed fields kept
emit_send_keeping_changes(self, context, delivery) ==
    LET payload == self.payload
        sent == _emit(self, context,
                      to_notification_event_type_field(self.event_type),
                      publisher_id_of(self.publisher),
                      obj_to_primitive(payload),
                      delivery)
    IN [raised |-> sent.raised, calls |-> sent.calls, payload |-> payload]

\* the branch of emit past the gate, serializing before it drops the changes
emit_send_serializing_first(self, context, delivery) ==
    LET primitive == obj_to_primitive(self.payload)
        payload == obj_reset_changes(self.payload)
        sent == _emit(self, context,
                      to_notification_event_type_field(self.event_type),
                      publisher_id_of(self.publisher),
                      primitive,
                      delivery)
    IN [raised |-> sent.raised, calls |-> sent.calls, payload |-> payload]

\* the branch of emit past the gate, marking the payload as used up
emit_send_consuming(self, context, delivery) ==
    LET payload == obj_reset_changes(self.payload)
        sent == _emit(self, context,
                      to_notification_event_type_field(self.event_type),
                      publisher_id_of(self.publisher),
                      obj_to_primitive(payload),
                      delivery)
    IN [raised |-> sent.raised, calls |-> sent.calls,
        payload |-> [payload EXCEPT !.populated = FALSE]]

\* the branch of emit past the gate: the changes are dropped, the arguments
\* built and _emit called
emit_send(self, context, delivery) ==
    LET payload == obj_reset_changes(self.payload)
        sent == _emit(self, context,
                      to_notification_event_type_field(self.event_type),
                      publisher_id_of(self.publisher),
                      obj_to_primitive(payload),
                      delivery)
    IN [raised |-> sent.raised, calls |-> sent.calls, payload |-> payload]

\* the outcome of an emit that made no call and left the payload alone
emit_ends(self, raised) ==
    [raised |-> raised, calls |-> <<>>, payload |-> self.payload]

\* emit that drops the changes before it consults the gate
emit_resetting_first(self, context, delivery) ==
    IF ~emit_precondition(self)
    THEN emit_ends(self, "AssertionError")
    ELSE LET gate == _should_notify(self)
         IN IF gate.raised # NoException THEN emit_ends(self, gate.raised)
            ELSE IF ~gate.value
            THEN [raised |-> NoException, calls |-> <<>>,
                  payload |-> obj_reset_changes(self.payload)]
            ELSE emit_send(self, context, delivery)

\* emit that consults the gate before its assertion
emit_gate_first(self, context, delivery) ==
    LET gate == _should_notify(self)
    IN IF gate.raised # NoException THEN emit_ends(self, gate.raised)
       ELSE IF ~gate.value THEN emit_ends(self, NoException)
       ELSE IF ~emit_precondition(self)
       THEN emit_ends(self, "AssertionError")
       ELSE emit_send(self, context, delivery)

\* emit that takes a payload without changes for one already sent
emit_unchanged_skipped(self, context, delivery) ==
    IF ~emit_precondition(self)
    THEN emit_ends(self, "AssertionError")
    ELSE LET gate == _should_notify(self)
         IN IF gate.raised # NoException THEN emit_ends(self, gate.raised)
            ELSE IF ~gate.value \/ self.payload.changed = {}
            THEN emit_ends(self, NoException)
            ELSE emit_send(self, context, delivery)

\* NotificationBase.emit: [raised, calls, payload]
emit(self, context, delivery) ==
    IF ~emit_precondition(self)
    THEN emit_ends(self, "AssertionError")
    ELSE LET gate == _should_notify(self)
         IN IF gate.raised # NoException THEN emit_ends(self, gate.raised)
            ELSE IF ~gate.value THEN emit_ends(self, NoException)
            ELSE emit_send(self, context, delivery)

---------------------------------------------------------------------------
(* The state machine *)

\* the permutations of a set, as sequences: the orders a dict can iterate in
Orders(S) ==
    {seq \in [1..Cardinality(S) -> S] :
        \A i, j \in 1..Cardinality(S) : i # j => seq[i] # seq[j]}

\* the record of an operation that took no input worth keeping
Done(op, raised) == [op |-> op, raised |-> raised]

\* Module import: the option defaults to None, the handles are None, no
\* notification exists yet
Init ==
    /\ CONF_notification_priority = None
    /\ TRANSPORT = None
    /\ NOTIFICATION_TRANSPORT = None
    /\ METRICS_NOTIFIER = None
    /\ VERSIONED_NOTIFIER = None
    /\ notif = None
    /\ populate_called = FALSE
    /\ last = Done("import", NoException)
    /\ from_nodes = FALSE
    /\ db_nodes = {}
    /\ db_ports = <<>>
    /\ port = None

\* self.config(notification_priority=value)
SetConfig ==
    \E value \in ConfigValues :
        /\ CONF_notification_priority' = value
        /\ last' = Done("config", NoException)
        /\ UNCHANGED <<port_vars, rpc_vars, notif, populate_called>>

\* rpc.init(CONF)
RpcInit ==
    /\ TRANSPORT' = Transport("rpc")
    /\ NOTIFICATION_TRANSPORT' = Transport("notification")
    /\ METRICS_NOTIFIER' = Notifier(TRANSPORT', <<>>)
    /\ VERSIONED_NOTIFIER' =
           init_versioned_notifier(CONF_notification_priority,
                                   NOTIFICATION_TRANSPORT')
    /\ last' = [op |-> "init", raised |-> NoException,
                conf |-> CONF_notification_priority]
    /\ UNCHANGED <<port_vars, CONF_notification_priority, notif, populate_called>>

\* rpc.cleanup()
RpcCleanup ==
    LET r == cleanup
    IN /\ TRANSPORT' = r.handles[1]
       /\ NOTIFICATION_TRANSPORT' = r.handles[2]
       /\ METRICS_NOTIFIER' = r.handles[3]
       /\ VERSIONED_NOTIFIER' = r.handles[4]
       /\ last' = [op |-> "cleanup", raised |-> r.raised, cleaned |-> r.cleaned]
       /\ UNCHANGED <<port_vars, CONF_notification_priority, notif, populate_called>>

\* A caller builds a payload and wraps it in a notification; one notification
\* is alive at a time
Construct ==
    /\ notif = None
    /\ \E cls \in PayloadClasses, priority \in ALL, event_type \in EventTypes,
       publisher \in Publishers :
      \E kwargs \in PayloadKwargs(cls) :
        /\ notif' = [priority |-> priority, event_type |-> event_type,
                     publisher |-> publisher,
                     payload |-> NotificationPayloadBase__init__(cls, kwargs)]
        /\ populate_called' = FALSE
        /\ last' = Done("construct", NoException)
        /\ UNCHANGED <<port_vars, CONF_notification_priority, rpc_vars>>

\* The caller drops the notification (constructed per event, then discarded)
Discard ==
    /\ notif # None
    /\ notif' = None
    /\ populate_called' = FALSE
    /\ last' = Done("discard", NoException)
    /\ UNCHANGED <<port_vars, CONF_notification_priority, rpc_vars>>

\* payload.<field> = value, by the caller
SetField ==
    /\ notif # None
    /\ \E field \in AssignedFields(notif.payload.cls) :
        /\ notif' = [notif EXCEPT
                        !.payload = setattr(@, field, DirectValue(field))]
        /\ last' = [op |-> "setattr", raised |-> NoException, field |-> field]
        /\ UNCHANGED <<port_vars, CONF_notification_priority, rpc_vars, populate_called>>

\* payload.populate_schema(**kwargs)
PopulateSchema ==
    /\ notif # None
    /\ \E kwargs \in PopulateKwargs,
          items \in Orders(DOMAIN SCHEMA(notif.payload.cls)) :
        LET r == populate_schema(notif.payload, kwargs, items)
        IN /\ notif' = [notif EXCEPT !.payload = r.obj]
           /\ populate_called' = TRUE
           /\ last' = [op |-> "populate_schema", raised |-> r.raised,
                       kwargs |-> kwargs]
           /\ UNCHANGED <<port_vars, CONF_notification_priority, rpc_vars>>

\* notif.emit(context).  The record of an emit that follows another emit
\* keeps the calls of the emits before it: nth counts the emits made in a
\* row, earlier holds the calls of all but the last of them.
Emit ==
    /\ notif # None
    /\ last.op = "emit" => last.nth < MaxEmits
    /\ \E context \in Contexts, delivery \in Deliveries :
        LET r == emit(notif, context, delivery)
            repeated == last.op = "emit"
        IN /\ notif' = [notif EXCEPT !.payload = r.payload]
           /\ last' = [op |-> "emit", raised |-> r.raised, calls |-> r.calls,
                       nth |-> IF repeated THEN last.nth + 1 ELSE 1,
                       earlier |-> IF repeated
                                   THEN last.earlier \o last.calls ELSE <<>>]
           /\ UNCHANGED <<port_vars, CONF_notification_priority, rpc_vars, populate_called>>

\* a caller asks the rpc module for a client, a server or a notifier
RpcAccess ==
    \E name \in Accessors, publisher_id \in PublisherIds :
        /\ last' = [op |-> name, raised |-> access(name, publisher_id)]
        /\ UNCHANGED <<port_vars, CONF_notification_priority, rpc_vars, notif,
                       populate_called>>

Next ==
    \/ SetConfig
    \/ RpcInit
    \/ RpcCleanup
    \/ RpcAccess
    \/ Construct
    \/ Discard
    \/ SetField
    \/ PopulateSchema
    \/ Emit

Spec == Init /\ [][Next]_vars

---------------------------------------------------------------------------
(* ironic/api/controllers/v1/port.py: values *)

\* wtypes.Unset
Unset == [type |-> "UnsetType"]

\* an int where None, Unset or a string may stand as well
Num(i) == [type |-> "int", value |-> i]

\* a dict value, such as a port's extra
Dict(d) == [type |-> "dict", value |-> d]

\* bool(value): None, Unset, the empty string and zero are false
Truthy(value) ==
    CASE value.type = "NoneType" -> FALSE
      [] value.type = "UnsetType" -> FALSE
      [] value.type = "str" -> value.value # ""
      [] value.type = "int" -> value.value # 0
      [] OTHER -> TRUE

\* kwargs.get(key, wtypes.Unset)
get(kwargs, key) == IF key \in DOMAIN kwargs THEN kwargs[key] ELSE Unset

\* the nodes there can be
Nodes ==
    {[id |-> 1, uuid |-> "1be26c0b-03f2-4d2e-ae87-c02d7f33c123"],
     [id |-> 2, uuid |-> "2fa1c2d0-6e3a-4c5b-9b7e-0d1f2a3b4c5d"]}

\* the node uuid Port.sample writes into _node_uuid; no node has it
SampleNodeUuid == "7ae81bb3-dec3-4289-8d6c-da80bd8001ae"

\* values a caller assigns to node_uuid: Unset, None, ids and uuids of
\* nodes that may exist, an id and a uuid that no node has
NodeValues ==
    {Unset, None, Num(9), Str(SampleNodeUuid)}
    \cup {Num(n.id) : n \in Nodes}
    \cup {Str(n.uuid) : n \in Nodes}

\* the fields of objects.Port
PortObjectFields ==
    {"id", "uuid", "node_id", "address", "extra", "created_at", "updated_at"}

\* the fields of objects.Port that the API class has as attributes
ExposedFields == {"uuid", "address", "extra", "created_at", "updated_at"}

---------------------------------------------------------------------------
(* ironic/api/controllers/v1/port.py: class Port *)

\* objects.Node.get(context, value): the node with that id or uuid
Node_get(value) ==
    LET found == {n \in db_nodes : value = Num(n.id) \/ value = Str(n.uuid)}
    IN IF found = {}
       THEN [raised |-> "NodeNotFound", node |-> None]
       ELSE [raised |-> NoException, node |-> CHOOSE n \in found : TRUE]

\* the setter of node_uuid storing the uuid before it has the node
_set_node_uuid_storing_first(self, value) ==
    IF Truthy(value) /\ self["_node_uuid"] # value
    THEN LET got == Node_get(value)
             calls == <<[name |-> "Node.get", value |-> value]>>
         IN IF got.raised # NoException
            THEN [raised |-> "NodeNotFound", code |-> 400,
                  obj |-> [self EXCEPT !["_node_uuid"] = value],
                  calls |-> calls]
            ELSE [raised |-> NoException,
                  obj |-> ("node_id" :> Num(got.node.id))
                          @@ [self EXCEPT !["_node_uuid"] = Str(got.node.uuid)],
                  calls |-> calls]
    ELSE IF value = Unset
    THEN [raised |-> NoException,
          obj |-> [self EXCEPT !["_node_uuid"] = Unset], calls |-> <<>>]
    ELSE [raised |-> NoException, obj |-> self, calls |-> <<>>]

\* Port._set_node_uuid: [raised, code, obj, calls]
_set_node_uuid(self, value) ==
    IF Truthy(value) /\ self["_node_uuid"] # value
    THEN LET got == Node_get(value)
             calls == <<[name |-> "Node.get", value |-> value]>>
         IN IF got.raised # NoException
            THEN [raised |-> "NodeNotFound", code |-> 400, obj |-> self,
                  calls |-> calls]
            ELSE [raised |-> NoException,
                  obj |-> ("node_id" :> Num(got.node.id))
                          @@ [self EXCEPT !["_node_uuid"] = Str(got.node.uuid)],
                  calls |-> calls]
    ELSE IF value = Unset
    THEN [raised |-> NoException,
          obj |-> [self EXCEPT !["_node_uuid"] = Unset], calls |-> <<>>]
    ELSE [raised |-> NoException, obj |-> self, calls |-> <<>>]

\* Port.__init__(**kwargs): the exposed fields from kwargs, node_uuid from
\* kwargs['node_uuid'] and then from kwargs['node_id']
Port__init__(kwargs) ==
    LET plain == [f \in ExposedFields \cup {"links", "_node_uuid"} |->
                     IF f \in ExposedFields THEN get(kwargs, f)
                     ELSE IF f = "links" THEN Unset
                     ELSE None]
        from_node_id(first) ==
            IF first.raised # NoException THEN first
            ELSE [_set_node_uuid(first.obj, get(kwargs, "node_id"))
                     EXCEPT !.calls = first.calls \o @]
    IN from_node_id(_set_node_uuid(plain, get(kwargs, "node_uuid")))

\* port.as_dict(): the fields of self.fields that are set and not Unset
as_dict(self) ==
    LET attr(k) == IF k = "node_uuid" THEN self["_node_uuid"] ELSE self[k]
        has(k) == k = "node_uuid" \/ k \in DOMAIN self
        keys == {k \in ExposedFields \cup {"node_uuid", "node_id"} :
                    has(k) /\ attr(k) # Unset}
    IN [k \in keys |-> attr(k)]

\* port.unset_fields_except(except_list)
unset_fields_except(self, except_list) ==
    LET dropped == DOMAIN as_dict(self) \ except_list
    IN [k \in DOMAIN self |->
           IF k \in dropped \/ (k = "_node_uuid" /\ "node_uuid" \in dropped)
           THEN Unset
           ELSE self[k]]

\* link.Link.make_link(rel_name, url, resource, resource_args, bookmark)
make_link(rel_name, url, resource, resource_args, bookmark) ==
    [rel |-> rel_name, url |-> url, resource |-> resource,
     resource_args |-> resource_args, bookmark |-> bookmark]

\* _convert_with_links hiding node_id only when it collapses the port
_convert_with_links_hiding_collapsed(self, url, expand) ==
    LET kept == IF expand THEN self
                ELSE ("node_id" :> Unset)
                     @@ unset_fields_except(self, {"uuid", "address"})
    IN [kept EXCEPT !["links"] =
           <<make_link("self", url, "ports", self["uuid"], FALSE),
             make_link("bookmark", url, "ports", self["uuid"], TRUE)>>]

\* Port._convert_with_links(port, url, expand)
_convert_with_links(self, url, expand) ==
    LET kept == IF expand THEN self
                ELSE unset_fields_except(self, {"uuid", "address"})
        hidden == ("node_id" :> Unset) @@ kept
    IN [hidden EXCEPT !["links"] =
           <<make_link("self", url, "ports", self["uuid"], FALSE),
             make_link("bookmark", url, "ports", self["uuid"], TRUE)>>]

\* pecan.request.host_url
host_url == "http://ironic.example.org:6385"

\* Port.convert_with_links(rpc_port, expand): [raised, code, obj, calls]
convert_with_links(rpc_port, expand) ==
    LET converted(made) ==
            IF made.raised # NoException THEN made
            ELSE [made EXCEPT
                     !.obj = _convert_with_links(@, host_url, expand)]
    IN converted(Port__init__(rpc_port))

\* Port.sample(expand)
sample(expand) ==
    LET made == Port__init__([uuid |-> Str("27e3153e-d5bf-4b7e-b517-fb518e17f34c"),
                              address |-> Str("fe:54:00:77:07:d9"),
                              extra |-> Dict([foo |-> "bar"]),
                              created_at |-> Str("utcnow"),
                              updated_at |-> Str("utcnow")]).obj
        named == [made EXCEPT !["_node_uuid"] = Str(SampleNodeUuid)]
    IN _convert_with_links(named, "http://localhost:6385", expand)

---------------------------------------------------------------------------
(* ironic/api/controllers/v1/port.py: class PortsController *)

\* a port as the database returns it
RpcPort(id, uuid, node_id, address) ==
    [id |-> Num(id), uuid |-> Str(uuid), node_id |-> Num(node_id),
     address |-> Str(address), extra |-> Dict(<<>>),
     created_at |-> Str("2016-01-01T00:00:00"), updated_at |-> None]

\* the id the database gives the port with that uuid
PortId(uuid) ==
    CASE uuid = "port-1" -> 1
      [] uuid = "port-2" -> 2
      [] OTHER -> 3

\* the ports in the database when the API starts: none, or one port of a
\* node that exists
InitialPorts(nodes) ==
    {<<>>}
    \cup {("port-1" :> RpcPort(PortId("port-1"), "port-1", n.id,
                               "52:54:00:cf:2d:31")) : n \in nodes}

\* keyword arguments Port objects are built from
PortKwargs ==
    LET base == [uuid |-> Str("port-2"), address |-> Str("52:54:00:cf:2d:32")]
    IN {<<>>, base, ("extra" :> Dict([foo |-> "bar"])) @@ base}
       \cup {("node_uuid" :> Str(n.uuid)) @@ base : n \in Nodes}
       \cup {("node_id" :> Num(n.id)) @@ base : n \in Nodes}

\* port uuids of requests
PortUuids == {Str("port-1"), Str("port-2")}

\* JSON patches of requests: one that names no field among them
Patches ==
    {<<[op |-> "replace", path |-> "address", value |-> Str("52:54:00:cf:2d:33")]>>,
     <<[op |-> "remove", path |-> "nonexistent"]>>}
    \cup {<<[op |-> "replace", path |-> "node_uuid", value |-> Str(u)]>> :
              u \in {n.uuid : n \in Nodes} \cup {SampleNodeUuid}}

\* the outcome of a request that raised
Fail(raised, calls) ==
    [raised |-> raised, calls |-> calls, result |-> None, db |-> db_ports]

\* a call on a collaborator, as the log keeps it
Call(name, value) == [name |-> name, value |-> value]

\* api_utils.apply_jsonpatch(doc, patch): [raised, doc]
RECURSIVE apply_jsonpatch(_, _)
apply_jsonpatch(doc, patch) ==
    IF patch = <<>> THEN [raised |-> NoException, doc |-> doc]
    ELSE LET step == Head(patch)
         IN IF step.path \notin DOMAIN doc
            THEN [raised |-> "JsonPatchConflict", doc |-> doc]
            ELSE IF step.op = "remove"
            THEN apply_jsonpatch([k \in DOMAIN doc \ {step.path} |-> doc[k]],
                                 Tail(patch))
            ELSE apply_jsonpatch([doc EXCEPT ![step.path] = step.value],
                                 Tail(patch))

\* objects.Node.get_by_id(context, node_id)
Node_get_by_id(node_id) ==
    LET found == {n \in db_nodes : node_id = Num(n.id)}
    IN IF found = {}
       THEN [raised |-> "NodeNotFound", node |-> None]
       ELSE [raised |-> NoException, node |-> CHOOSE n \in found : TRUE]

\* new_port.create(): the row the database holds afterwards, [raised, row]
Port_create(new_port) ==
    LET uuid == new_port["uuid"].value
    IN IF uuid \in DOMAIN db_ports
       THEN [raised |-> "PortAlreadyExists", row |-> None]
       ELSE IF \E u \in DOMAIN db_ports :
                   db_ports[u]["address"] = new_port["address"]
       THEN [raised |-> "MACAlreadyExists", row |-> None]
       ELSE [raised |-> NoException,
             row |-> new_port
                     @@ [id |-> Num(PortId(uuid)), node_id |-> None,
                         extra |-> Dict(<<>>),
                         created_at |-> Str("2016-01-01T00:00:00"),
                         updated_at |-> None]]

\* what a request answers once the port it returns is converted
respond(calls, made, db) ==
    [raised |-> made.raised, calls |-> calls \o made.calls,
     result |-> IF made.raised = NoException THEN made.obj ELSE None,
     db |-> db]

\* get_one looking the port up before it tests from_nodes
get_one_lookup_first(port_uuid) ==
    LET lookup == <<Call("Port.get_by_uuid", port_uuid)>>
    IN IF port_uuid.value \notin DOMAIN db_ports
       THEN Fail("PortNotFound", lookup)
       ELSE IF from_nodes THEN Fail("OperationNotPermitted", lookup)
       ELSE respond(lookup,
                    convert_with_links(db_ports[port_uuid.value], TRUE),
                    db_ports)

\* PortsController.get_one(port_uuid): [raised, calls, result, db]
get_one(port_uuid) ==
    IF from_nodes THEN Fail("OperationNotPermitted", <<>>)
    ELSE LET lookup == <<Call("Port.get_by_uuid", port_uuid)>>
         IN IF port_uuid.value \notin DOMAIN db_ports
            THEN Fail("PortNotFound", lookup)
            ELSE respond(lookup,
                         convert_with_links(db_ports[port_uuid.value], TRUE),
                         db_ports)

\* PortsController.post(port): [raised, calls, result, db]
post(body) ==
    IF from_nodes THEN Fail("OperationNotPermitted", <<>>)
    ELSE LET kwargs == as_dict(body)
             new_port == [k \in DOMAIN kwargs \cap PortObjectFields |-> kwargs[k]]
             calls == <<Call("objects.Port", new_port["uuid"]),
                        Call("Port.create", new_port["uuid"])>>
             saved(created) ==
                 IF created.raised # NoException
                 THEN Fail(created.raised, calls)
                 ELSE respond(calls, convert_with_links(created.row, TRUE),
                              (new_port["uuid"].value :> created.row)
                              @@ db_ports)
         IN saved(Port_create(new_port))

\* the row of patch's rpc_port after the fields of the patched API port that
\* differ are copied into it
patched_fields(rpc_port, api_port) ==
    [field \in PortObjectFields |->
        IF field \notin DOMAIN api_port THEN rpc_port[field]
        ELSE IF api_port[field] = Unset THEN None
        ELSE api_port[field]]

\* PortsController.patch(port_uuid, patch): [raised, calls, result, db]
patch(port_uuid, patch_doc) ==
    LET lookup == <<Call("Port.get_by_uuid", port_uuid)>>
        updated(calls, changed, rpc_node) ==
            IF rpc_node.raised # NoException
            THEN Fail(rpc_node.raised,
                      calls \o <<Call("Node.get_by_id", changed["node_id"])>>)
            ELSE respond(calls
                         \o <<Call("Node.get_by_id", changed["node_id"]),
                              Call("rpcapi.get_topic_for",
                                   Num(rpc_node.node.id)),
                              Call("rpcapi.update_port", port_uuid)>>,
                         convert_with_links(changed, TRUE),
                         [db_ports EXCEPT ![port_uuid.value] = changed])
        copied(calls, changed) ==
            updated(calls, changed, Node_get_by_id(changed["node_id"]))
        built(rpc_port, made) ==
            IF made.raised # NoException
            THEN Fail(made.raised, lookup \o made.calls)
            ELSE copied(lookup \o made.calls,
                        patched_fields(rpc_port, made.obj))
        applied(rpc_port, patched) ==
            IF patched.raised # NoException THEN Fail("PatchError", lookup)
            ELSE built(rpc_port, Port__init__(patched.doc))
        found(rpc_port) ==
            applied(rpc_port,
                    apply_jsonpatch(
                        ("node_uuid" :> rpc_port["node_id"])
                        @@ [k \in DOMAIN rpc_port \ {"node_id"} |-> rpc_port[k]],
                        patch_doc))
    IN IF from_nodes THEN Fail("OperationNotPermitted", <<>>)
       ELSE IF port_uuid.value \notin DOMAIN db_ports
       THEN Fail("PortNotFound", lookup)
       ELSE found(db_ports[port_uuid.value])

\* PortsController.delete(port_uuid): [raised, calls, result, db]
delete(port_uuid) ==
    IF from_nodes THEN Fail("OperationNotPermitted", <<>>)
    ELSE LET lookup == <<Call("Port.get_by_uuid", port_uuid)>>
         IN IF port_uuid.value \notin DOMAIN db_ports
            THEN Fail("PortNotFound", lookup)
            ELSE
    LET rpc_port == db_ports[port_uuid.value]
        rpc_node == Node_get_by_id(rpc_port["node_id"])
        calls == lookup \o <<Call("Node.get_by_id", rpc_port["node_id"])>>
    IN IF rpc_node.raised # NoException THEN Fail(rpc_node.raised, calls)
       ELSE [raised |-> NoException,
             calls |-> calls
                       \o <<Call("rpcapi.get_topic_for", Num(rpc_node.node.id)),
                            Call("rpcapi.destroy_port", port_uuid)>>,
             result |-> None,
             db |-> [u \in DOMAIN db_ports \ {port_uuid.value} |-> db_ports[u]]]

\* PortCollection.convert_with_links(rpc_ports, ...): every port converted,
\* [raised, calls, result]; the ports are taken in the order of their ids
RECURSIVE collection_convert_with_links(_, _)
collection_convert_with_links(rpc_ports, expand) ==
    LET first(p) == \A r \in rpc_ports : p["id"].value <= r["id"].value
        joined(made, rest) ==
            IF made.raised # NoException
            THEN [raised |-> made.raised, calls |-> made.calls, result |-> {}]
            ELSE [raised |-> rest.raised,
                  calls |-> made.calls \o rest.calls,
                  result |-> IF rest.raised # NoException THEN {}
                             ELSE {made.obj} \cup rest.result]
        from(p) ==
            joined(convert_with_links(p, expand),
                   collection_convert_with_links(rpc_ports \ {p}, expand))
    IN IF rpc_ports = {}
       THEN [raised |-> NoException, calls |-> <<>>, result |-> {}]
       ELSE from(CHOOSE p \in rpc_ports : first(p))

\* the ports of the database that come after the marker
after_marker(marker) ==
    {db_ports[u] : u \in
        {v \in DOMAIN db_ports :
            Truthy(marker) =>
                db_ports[v]["id"].value > db_ports[marker.value]["id"].value}}

\* PortsController._get_ports_collection: [raised, calls, result, db]
_get_ports_collection(node_ident, address, marker, expand) ==
    LET marked == IF Truthy(marker)
                  THEN <<Call("Port.get_by_uuid", marker)>> ELSE <<>>
        listed ==
            IF Truthy(node_ident)
            THEN <<Call("get_rpc_node", node_ident),
                   Call("Port.list_by_node_id", node_ident)>>
            ELSE IF Truthy(address)
            THEN <<Call("Port.get_by_address", address)>>
            ELSE <<Call("Port.list", marker)>>
        ports(node) ==
            IF Truthy(node_ident)
            THEN {p \in after_marker(marker) :
                     p["node_id"] = Num(node.node.id)}
            ELSE IF Truthy(address)
            THEN {db_ports[u] : u \in {v \in DOMAIN db_ports :
                                          db_ports[v]["address"] = address}}
            ELSE after_marker(marker)
        collected(made) ==
            [raised |-> made.raised, calls |-> marked \o listed \o made.calls,
             result |-> made.result, db |-> db_ports]
        of_node(node) ==
            IF Truthy(node_ident) /\ node.raised # NoException
            THEN Fail(node.raised,
                      marked \o <<Call("get_rpc_node", node_ident)>>)
            ELSE collected(collection_convert_with_links(ports(node), expand))
    IN IF from_nodes /\ ~Truthy(node_ident)
       THEN Fail("MissingParameterValue", <<>>)
       ELSE IF Truthy(marker) /\ marker.value \notin DOMAIN db_ports
       THEN Fail("PortNotFound", marked)
       ELSE of_node(Node_get(node_ident))

\* PortsController.get_all(node, node_uuid, address, marker, ...)
get_all(node, node_uuid, address, marker) ==
    _get_ports_collection(IF Truthy(node_uuid) THEN node_uuid ELSE node,
                          address, marker, FALSE)

\* PortsController.detail(node, node_uuid, address, marker, ...); parent is
\* the path segment before the last of the request
detail(node, node_uuid, address, marker, parent) ==
    IF parent # "ports" THEN Fail("HTTPNotFound", <<>>)
    ELSE _get_ports_collection(IF Truthy(node_uuid) THEN node_uuid ELSE node,
                               address, marker, TRUE)

\* node and node_uuid arguments of the list requests
NodeIdents == {None} \cup {Str(n.uuid) : n \in Nodes}

\* address arguments of the list requests
Addresses == {None, Str("52:54:00:cf:2d:31")}

\* marker arguments of the list requests
Markers == {None, Str("port-1")}

\* the last path segments but one of the requests that reach detail
Parents == {"ports", "port-1"}

---------------------------------------------------------------------------
(* The ports API as a state machine *)

\* The API starts: a controller of the ports resource or of the ports of the
\* nodes resource, over a database
PortInit ==
    /\ CONF_notification_priority = None
    /\ TRANSPORT = None
    /\ NOTIFICATION_TRANSPORT = None
    /\ METRICS_NOTIFIER = None
    /\ VERSIONED_NOTIFIER = None
    /\ notif = None
    /\ populate_called = FALSE
    /\ last = Done("import", NoException)
    /\ from_nodes \in BOOLEAN
    /\ db_nodes \in SUBSET Nodes
    /\ db_ports \in InitialPorts(db_nodes)
    /\ port = None

\* Port(**kwargs)
NewPort ==
    \E kwargs \in PortKwargs :
        LET made == Port__init__(kwargs)
        IN /\ port' = IF made.raised = NoException THEN made.obj ELSE port
           /\ last' = [op |-> "Port", raised |-> made.raised,
                       calls |-> made.calls]
           /\ UNCHANGED <<notification_vars, from_nodes, db_nodes, db_ports>>

\* Port.sample(expand)
Sample ==
    \E expand \in BOOLEAN :
        /\ port' = sample(expand)
        /\ last' = [op |-> "sample", raised |-> NoException, calls |-> <<>>,
                    expand |-> expand]
        /\ UNCHANGED <<notification_vars, from_nodes, db_nodes, db_ports>>

\* port.node_uuid = value
SetNodeUuid ==
    /\ port # None
    /\ \E value \in NodeValues :
        LET set == _set_node_uuid(port, value)
        IN /\ port' = set.obj
           /\ last' = [op |-> "set_node_uuid", raised |-> set.raised,
                       calls |-> set.calls, value |-> value]
                      @@ (IF set.raised = NoException THEN <<>>
                          ELSE [code |-> set.code])
           /\ UNCHANGED <<notification_vars, from_nodes, db_nodes, db_ports>>

\* the record of a request to the controller
Request(op, r) ==
    [op |-> op, raised |-> r.raised, calls |-> r.calls, result |-> r.result]

\* The caller drops the port it built
DiscardPort ==
    /\ port # None
    /\ port' = None
    /\ last' = Done("discard", NoException)
    /\ UNCHANGED <<notification_vars, from_nodes, db_nodes, db_ports>>

\* GET /ports/<port_uuid>.  The API serves one request at a time: none while
\* the body of a POST is being built
GetOne ==
    /\ port = None
    /\ \E port_uuid \in PortUuids :
        LET r == get_one(port_uuid)
        IN /\ last' = Request("get_one", r)
           /\ db_ports' = r.db
           /\ UNCHANGED <<notification_vars, from_nodes, db_nodes, port>>

\* the port is one the framework hands to post: built from a request body
\* that passed the validation of the mandatory attributes, for one of the
\* ports of the model
RequestBody(body) ==
    /\ body # None
    /\ body["uuid"] \in PortUuids
    /\ body["address"] # Unset
    /\ Truthy(body["_node_uuid"])
    /\ "node_id" \in DOMAIN body
    /\ body["node_id"] # Unset

\* POST /ports with the port as body
Post ==
    /\ RequestBody(port)
    /\ LET r == post(port)
       IN /\ last' = Request("post", r)
          /\ db_ports' = r.db
          /\ port' = None
          /\ UNCHANGED <<notification_vars, from_nodes, db_nodes>>

\* PATCH /ports/<port_uuid>
Patch ==
    /\ port = None
    /\ \E port_uuid \in PortUuids, patch_doc \in Patches :
        LET r == patch(port_uuid, patch_doc)
        IN /\ last' = Request("patch", r)
           /\ db_ports' = r.db
           /\ UNCHANGED <<notification_vars, from_nodes, db_nodes, port>>

\* DELETE /ports/<port_uuid>
Delete ==
    /\ port = None
    /\ \E port_uuid \in PortUuids :
        LET r == delete(port_uuid)
        IN /\ last' = Request("delete", r)
           /\ db_ports' = r.db
           /\ UNCHANGED <<notification_vars, from_nodes, db_nodes, port>>

\* GET /ports
GetAll ==
    /\ port = None
    /\ \E node \in NodeIdents, address \in Addresses, marker \in Markers :
        LET r == get_all(node, None, address, marker)
        IN /\ last' = Request("get_all", r) @@ [node_ident |-> node]
           /\ db_ports' = r.db
           /\ UNCHANGED <<notification_vars, from_nodes, db_nodes, port>>

\* GET /ports/detail
Detail ==
    /\ port = None
    /\ \E node \in NodeIdents, address \in Addresses, marker \in Markers,
       parent \in Parents :
        LET r == detail(None, node, address, marker, parent)
        IN /\ last' = Request("detail", r)
                      @@ [node_ident |-> node, parent |-> parent]
           /\ db_ports' = r.db
           /\ UNCHANGED <<notification_vars, from_nodes, db_nodes, port>>

PortNext ==
    \/ NewPort
    \/ Sample
    \/ SetNodeUuid
    \/ DiscardPort
    \/ GetOne
    \/ Post
    \/ Patch
    \/ Delete
    \/ GetAll
    \/ Detail

PortSpec == PortInit /\ [][PortNext]_vars

---------------------------------------------------------------------------
(* What the claims speak of *)

\* the state right after an emit call
Emitted == last.op = "emit"

\* the calls of the last emit on a severity method of the prepared notifier
Sends == SelectSeq(last.calls, LAMBDA c : c.name \in ALL)

\* the calls of the last emit that obtain the notifier handle
Prepares == SelectSeq(last.calls, LAMBDA c : c.name = "prepare")

\* the ranks the specification fixes
Rank == [debug |-> 0, info |-> 1, warn |-> 2, error |-> 3]

\* the startup sequencing the specification assumes: rpc.init happened
\* before the emit call, and no rpc.cleanup since
Initialised == VERSIONED_NOTIFIER # None

\* the threshold is one of the four priorities
ThresholdSet == CONF_notification_priority \in {Str(p) : p \in ALL}

\* the emit just made got past its assertion and the priority gate
PassedGate ==
    /\ notif.payload.populated
    /\ _should_notify(notif).raised = NoException
    /\ _should_notify(notif).value

---------------------------------------------------------------------------
(* Claims *)

\* C1: with the threshold set to one of debug, info, warn, error and the
\* versioned notifier initialised, emit on a populated notification invokes
\* the notifier (one prepare, one send) if and only if
\* rank(priority) >= rank(threshold), with DEBUG=0 < INFO=1 < WARN=2 < ERROR=3;
\* otherwise it makes no call at all.
C1_EmitIffRankAtLeastThreshold ==
    (Emitted /\ notif.payload.populated /\ ThresholdSet /\ Initialised) =>
        IF Rank[notif.priority] >= Rank[CONF_notification_priority.value]
        THEN Len(Sends) = 1 /\ Len(Prepares) = 1
        ELSE last.calls = <<>>

\* C1 witness: an emit whose priority equals the threshold was sent, with a
\* threshold that is not the lowest one
C1_Witness ==
    /\ Emitted /\ notif.payload.populated /\ Initialised
    /\ CONF_notification_priority = Str("warn")
    /\ notif.priority = "warn"
    /\ Len(Sends) = 1

\* C2: whenever the threshold is unset (None) at the moment emit is called,
\* emit invokes no notifier method, for every priority and whatever the
\* threshold was when rpc.init ran.
C2_UnsetThresholdNoCall ==
    (Emitted /\ CONF_notification_priority = None) => last.calls = <<>>

\* C2 witness: rpc.init ran with a threshold set (the notifier has the
\* notification topic), the threshold was unset afterwards, and an error
\* notification was emitted and returned
C2_Witness ==
    /\ Emitted /\ CONF_notification_priority = None
    /\ Initialised /\ "topic" \in DOMAIN VERSIONED_NOTIFIER
    /\ notif.payload.populated
    /\ notif.priority = "error"
    /\ last.raised = NoException
    /\ last.calls = <<>>

\* C3: emit on a notification whose payload has a non-empty SCHEMA and on
\* which populate_schema has not run fails with an AssertionError and makes
\* no notifier call, neither prepare nor a send.
C3_UnpopulatedEmitAsserts ==
    (Emitted /\ DOMAIN SCHEMA(notif.payload.cls) # {} /\ ~populate_called) =>
        /\ last.raised = "AssertionError"
        /\ last.calls = <<>>

\* C3 witness: such an emit, made when the gate would let the notification
\* through and the notifier is initialised
C3_Witness ==
    /\ Emitted /\ DOMAIN SCHEMA(notif.payload.cls) # {} /\ ~populate_called
    /\ Initialised
    /\ CONF_notification_priority = Str("debug")
    /\ last.raised = "AssertionError"

\* C4: with the versioned notifier initialised, each emit that passes the
\* priority gate makes exactly one send call on the notifier, whether or not
\* the transport then fails; each emit that does not pass the gate makes none.
C4_OneSendPerPassingEmit ==
    Emitted =>
        /\ (PassedGate /\ Initialised) => Len(Sends) = 1
        /\ ~PassedGate => Len(Sends) = 0

\* C4 witness: a passing emit whose single send was refused by the transport
C4_Witness ==
    /\ Emitted /\ PassedGate /\ Initialised
    /\ last.raised = "MessageDeliveryFailure"
    /\ Len(Sends) = 1

\* the payload of the live notification has an empty SCHEMA
EmptySchema == DOMAIN SCHEMA(notif.payload.cls) = {}

\* C5: a payload whose SCHEMA is empty has populated = true right after
\* construction, so an emit made without any populate_schema call gets past
\* the assertion: it is sent when the gate lets it through.
C5_EmptySchemaPopulatedAtConstruction ==
    /\ (last.op = "construct" /\ EmptySchema) => notif.payload.populated
    /\ (Emitted /\ EmptySchema /\ ~populate_called /\ Initialised) =>
           /\ last.raised # "AssertionError"
           /\ (_should_notify(notif).value => Len(Sends) = 1)

\* C5 witness: an empty-SCHEMA payload on which populate_schema was never
\* called has been emitted and sent
C5_Witness ==
    /\ Emitted /\ EmptySchema /\ ~populate_called
    /\ last.raised = NoException
    /\ Len(Sends) = 1

\* C6: a payload whose SCHEMA is non-empty has populated = false after
\* construction, and populated = true after populate_schema returns, however
\* many fields were copied (none included, when every source field is unset).
C6_PopulatedOnlyAfterPopulateSchema ==
    /\ (last.op = "construct" /\ ~EmptySchema) => ~notif.payload.populated
    /\ (last.op = "populate_schema" /\ last.raised = NoException) =>
           notif.payload.populated

\* C6 witness: populate_schema returned on a non-empty SCHEMA with a source
\* that has no field set; nothing was copied and the payload is populated
C6_Witness ==
    /\ last.op = "populate_schema" /\ last.raised = NoException
    /\ ~EmptySchema
    /\ last.kwargs.test_obj = <<>>
    /\ DOMAIN notif.payload.fields = {}
    /\ notif.payload.populated

\* C7: after populate_schema(sources) returns, for every SCHEMA entry
\* payload_field -> (source_key, source_field): if sources[source_key] has
\* source_field set, payload_field equals that value; if not, payload_field
\* is as it was before the call (set to the same value, or still unset).
C7_PopulateCopiesSetFieldsOnly ==
    [][(last'.op = "populate_schema" /\ last'.raised = NoException) =>
        \A key \in DOMAIN SCHEMA(notif.payload.cls) :
            LET source == last'.kwargs[SCHEMA(notif.payload.cls)[key][1]]
                field == SCHEMA(notif.payload.cls)[key][2]
                before == notif.payload.fields
                after == notif'.payload.fields
            IN IF field \in DOMAIN source
               THEN key \in DOMAIN after /\ after[key] = source[field]
               ELSE /\ (key \in DOMAIN after) = (key \in DOMAIN before)
                    /\ key \in DOMAIN before => after[key] = before[key]
      ]_vars

\* C7 witness: populate_schema returned with fake_field_2 copied from the
\* source and fake_field_1, unset in the source, still holding the value the
\* constructor gave it
C7_Witness ==
    /\ last.op = "populate_schema" /\ last.raised = NoException
    /\ DOMAIN last.kwargs.test_obj = {"fake_field_2"}
    /\ DOMAIN notif.payload.fields =
           {"fake_field_1", "fake_field_2", "an_extra_field"}
    /\ notif.payload.fields.fake_field_1 = "old"
    /\ notif.payload.fields.fake_field_2 = 2

\* the event-type string the specification gives for an EventType
EventTypeString(et) ==
    IF "phase" \notin DOMAIN et \/ et.phase = None
    THEN <<"baremetal", et.object, et.action>>
    ELSE <<"baremetal", et.object, et.action, et.phase.value>>

\* the segments of a sequence joined by dots
RECURSIVE Dotted(_)
Dotted(segments) ==
    IF Len(segments) = 1 THEN segments[1]
    ELSE segments[1] \o "." \o Dotted(Tail(segments))

\* C8: the event-type string is "baremetal.<object>.<action>" when phase is
\* unset or None and "baremetal.<object>.<action>.<phase>" when phase is set
\* to a string, and it is the event_type of the send emit makes.
C8_EventTypeString ==
    Emitted =>
        /\ to_notification_event_type_field(notif.event_type) =
               Dotted(EventTypeString(notif.event_type))
        /\ \A i \in 1..Len(Sends) :
               Sends[i].event_type = Dotted(EventTypeString(notif.event_type))

\* C8 witness: a send for an event type with phase start carried the string
\* of the unit test
C8_Witness ==
    /\ Emitted /\ Len(Sends) = 1
    /\ "phase" \in DOMAIN notif.event_type
    /\ notif.event_type.phase = Str("start")
    /\ Sends[1].event_type = "baremetal.test_object.test.start"

\* C9: on every emit that passes the gate (the versioned notifier being
\* initialised), the notifier handle is obtained exactly once, with
\* publisher_id "<publisher.service>.<publisher.host>" of the notification
\* emitted, and the send is made on that handle.
C9_PreparedOnceWithPublisherId ==
    (Emitted /\ PassedGate /\ Initialised) =>
        /\ Prepares = <<[name |-> "prepare",
                         publisher_id |-> Dotted(<<notif.publisher.service,
                                                   notif.publisher.host>>)]>>
        /\ last.calls[1].name = "prepare"
        /\ \A i \in 1..Len(Sends) :
               Sends[i].publisher_id = Dotted(<<notif.publisher.service,
                                                notif.publisher.host>>)

\* C9 witness: a passing emit of a notification published by ironic-api on
\* host obtained the handle for "ironic-api.host"
C9_Witness ==
    /\ Emitted /\ PassedGate /\ Initialised
    /\ notif.publisher.service = "ironic-api"
    /\ Len(Prepares) = 1
    /\ Prepares[1].publisher_id = "ironic-api.host"

\* C10: on every emit that passes the gate (the versioned notifier being
\* initialised), the one notifier method invoked is the one named by the
\* notification's own priority, not by the configured threshold; no emit
\* invokes any other severity method.
C10_MethodIsOwnPriority ==
    Emitted =>
        /\ \A i \in 1..Len(Sends) : Sends[i].name = notif.priority
        /\ (PassedGate /\ Initialised) => Len(Sends) = 1

\* C10 witness: an error notification emitted under the threshold debug
\* went out through the method error
C10_Witness ==
    /\ Emitted /\ PassedGate /\ Initialised
    /\ CONF_notification_priority = Str("debug")
    /\ notif.priority = "error"
    /\ Len(Sends) = 1
    /\ Sends[1].name = "error"

\* C11: the payload handed to the notifier on a passing emit has exactly
\* four top-level keys (object name, version, namespace, data), and its data
\* holds exactly the payload fields set at emit time, those copied by
\* populate_schema and those set by the caller, with their current values.
C11_PayloadFourKeysAllSetFields ==
    Emitted =>
        \A i \in 1..Len(Sends) :
            /\ DOMAIN Sends[i].payload = {"name", "version", "namespace", "data"}
            /\ Sends[i].payload.name = notif.payload.cls
            /\ Sends[i].payload.data = notif.payload.fields

\* C11 witness: a send whose data holds a field populate_schema copied and
\* a field the caller set
C11_Witness ==
    /\ Emitted /\ Len(Sends) = 1
    /\ populate_called
    /\ DOMAIN Sends[1].payload.data = {"fake_field_1", "an_extra_field"}
    /\ Sends[1].payload.data.fake_field_1 = "fake1"
    /\ Sends[1].payload.data.an_extra_field = "extra"

\* C12: if the notifier's send method raises during a passing emit, the same
\* error propagates out of emit, and emit made no second send.
C12_SendErrorPropagates ==
    Emitted =>
        \A i \in 1..Len(Sends) :
            Sends[i].raised # NoException =>
                /\ last.raised = Sends[i].raised
                /\ Len(Sends) = 1

\* C12 witness: an emit whose send raised MessageDeliveryFailure
C12_Witness ==
    /\ Emitted /\ Len(Sends) = 1
    /\ Sends[1].raised = "MessageDeliveryFailure"
    /\ last.raised = "MessageDeliveryFailure"

\* the emit just made was stopped by the priority gate
Rejected ==
    /\ notif.payload.populated
    /\ _should_notify(notif).raised = NoException
    /\ ~_should_notify(notif).value

\* C13: when the priority gate rejects an emit, emit returns normally having
\* done nothing further: no prepare call (nor any other call, so nothing was
\* serialized for the notifier), and the payload, its changed-fields
\* bookkeeping included, is as it was.
C13_RejectedEmitDoesNothing ==
    [][(last'.op = "emit" /\ Rejected) =>
        /\ last'.raised = NoException
        /\ last'.calls = <<>>
        /\ notif' = notif
      ]_vars

\* C13 witness: a rejected emit has returned and the payload still lists its
\* changed fields
C13_Witness ==
    /\ Emitted /\ Rejected /\ Initialised
    /\ last.raised = NoException
    /\ last.calls = <<>>
    /\ notif.payload.changed = {"fake_field_1", "fake_field_2", "an_extra_field"}

\* C14: on a passing emit the payload's changed-fields bookkeeping is
\* cleared before the payload is serialized: the payload handed to the
\* notifier carries no list of changed fields, and the payload object has
\* none left.
C14_ChangesClearedBeforeSerializing ==
    Emitted =>
        /\ \A i \in 1..Len(Sends) : "changes" \notin DOMAIN Sends[i].payload
        /\ PassedGate => notif.payload.changed = {}

\* C14 witness: a payload with fields set (each one a changed field until an
\* emit clears them) was sent without a list of changes
C14_Witness ==
    /\ Emitted /\ Len(Sends) = 1
    /\ DOMAIN notif.payload.fields =
           {"fake_field_1", "fake_field_2", "an_extra_field"}
    /\ "changes" \notin DOMAIN Sends[1].payload
    /\ notif.payload.changed = {}

\* C15: populate_schema, returning or raising, never changes a payload
\* field that is not a key of SCHEMA; on a payload with an empty SCHEMA it
\* returns with every field as it was and populated = true.
C15_PopulateLeavesOtherFields ==
    [][last'.op = "populate_schema" =>
        LET before == notif.payload.fields
            after == notif'.payload.fields
            others == (DOMAIN before \cup DOMAIN after)
                          \ DOMAIN SCHEMA(notif.payload.cls)
        IN /\ \A f \in others :
                  /\ f \in DOMAIN before /\ f \in DOMAIN after
                  /\ after[f] = before[f]
           /\ EmptySchema =>
                  /\ last'.raised = NoException
                  /\ after = before
                  /\ notif.payload.populated /\ notif'.payload.populated
      ]_vars

\* C15 witness: populate_schema was called with a source that has both
\* fields set on an empty-SCHEMA payload holding a field of its own
C15_Witness ==
    /\ last.op = "populate_schema" /\ EmptySchema
    /\ last.kwargs = [test_obj |-> [fake_field_1 |-> "fake1", fake_field_2 |-> 2]]
    /\ notif.payload.fields = [fake_field |-> "123"]
    /\ notif.payload.populated

\* the sends of the emits made in a row, the last one included
SendsInRow ==
    SelectSeq(last.earlier \o last.calls, LAMBDA c : c.name \in ALL)

\* C16: emit keeps no record of earlier emissions: n emit calls in a row on
\* the same populated notification, the gate passing and the versioned
\* notifier initialised, make n sends, each with the same event_type,
\* publisher_id and payload data.
C16_RepeatedEmitsSendAgain ==
    (Emitted /\ PassedGate /\ Initialised) =>
        /\ Len(SendsInRow) = last.nth
        /\ \A i \in 1..Len(SendsInRow) :
               /\ SendsInRow[i].event_type = SendsInRow[1].event_type
               /\ SendsInRow[i].publisher_id = SendsInRow[1].publisher_id
               /\ SendsInRow[i].payload.data = SendsInRow[1].payload.data
               /\ SendsInRow[i].payload.data = notif.payload.fields

\* C16 witness: three emits in a row made three sends
C16_Witness ==
    /\ Emitted /\ PassedGate /\ Initialised
    /\ last.nth = 3
    /\ Len(SendsInRow) = 3
    /\ DOMAIN notif.payload.fields # {}

\* the versioned notifier was built with the no-op driver
NoopNotifier ==
    /\ "driver" \in DOMAIN VERSIONED_NOTIFIER
    /\ VERSIONED_NOTIFIER.driver = "noop"
    /\ "topic" \notin DOMAIN VERSIONED_NOTIFIER

\* the versioned notifier was built with the notification topic
TopicNotifier ==
    /\ "topic" \in DOMAIN VERSIONED_NOTIFIER
    /\ VERSIONED_NOTIFIER.topic = "notification"
    /\ "driver" \notin DOMAIN VERSIONED_NOTIFIER

\* C17: rpc.init builds the versioned notifier with the no-op driver exactly
\* when notification_priority is None at that time, and with the topic
\* 'notification' otherwise; the option is None by default, and a no-op
\* versioned notifier delivers none of the messages sent through it.
C17_NoopNotifierWhenUnset ==
    /\ last.op = "import" => CONF_notification_priority = None
    /\ last.op = "init" =>
           IF last.conf = None THEN NoopNotifier ELSE TopicNotifier
    /\ (Emitted /\ Initialised /\ NoopNotifier) =>
           \A i \in 1..Len(Sends) : ~Sends[i].delivered

\* C17 witness: rpc.init ran with the threshold unset, the threshold was set
\* afterwards, and an emit that passed the gate delivered nothing
C17_Witness ==
    /\ Emitted /\ Initialised /\ NoopNotifier
    /\ PassedGate
    /\ Len(Sends) = 1
    /\ ~Sends[1].delivered

\* C18: the populated precondition is checked before the priority gate: emit
\* on an unpopulated payload fails with an AssertionError whatever the
\* threshold (unset and higher than the priority included), with no call
\* made on the notifier.
C18_AssertionBeforeGate ==
    (Emitted /\ ~notif.payload.populated) =>
        /\ last.raised = "AssertionError"
        /\ last.calls = <<>>

\* C18 witness: an unpopulated debug notification emitted with the threshold
\* unset failed its assertion
C18_Witness ==
    /\ Emitted /\ ~notif.payload.populated
    /\ CONF_notification_priority = None
    /\ notif.priority = "debug"
    /\ last.raised = "AssertionError"

\* C19: an emit that passes the gate while the versioned notifier is not
\* initialised (before rpc.init, or after rpc.cleanup) fails with an
\* AssertionError and sends nothing; an emit the gate rejects returns
\* normally in the same state.
C19_UninitialisedNotifierAsserts ==
    (Emitted /\ ~Initialised) =>
        /\ PassedGate => (last.raised = "AssertionError" /\ last.calls = <<>>)
        /\ Rejected => (last.raised = NoException /\ last.calls = <<>>)

\* C19 witness: a passing emit failed with the notifier not initialised
C19_Witness ==
    /\ Emitted /\ ~Initialised /\ PassedGate
    /\ last.raised = "AssertionError"
    /\ last.calls = <<>>

\* C20: rpc.cleanup called with the handles not initialised fails with an
\* AssertionError, calls cleanup on no transport and leaves the four handles
\* as they are; called after init it calls cleanup once on each of the two
\* transports and sets the four handles to None.
C20_CleanupAssertsInitialised ==
    [][last'.op = "cleanup" =>
        IF \/ TRANSPORT = None \/ NOTIFICATION_TRANSPORT = None
           \/ METRICS_NOTIFIER = None \/ VERSIONED_NOTIFIER = None
        THEN /\ last'.raised = "AssertionError"
             /\ last'.cleaned = <<>>
             /\ rpc_vars' = rpc_vars
        ELSE /\ last'.raised = NoException
             /\ last'.cleaned = <<"rpc", "notification">>
             /\ rpc_vars' = <<None, None, None, None>>
      ]_vars

\* C20 witness: a second cleanup with no init in between has failed
C20_Witness ==
    /\ last.op = "cleanup"
    /\ last.raised = "AssertionError"
    /\ last.cleaned = <<>>
    /\ rpc_vars = <<None, None, None, None>>

\* the four module handles are set
AllSet ==
    /\ TRANSPORT # None
    /\ NOTIFICATION_TRANSPORT # None
    /\ METRICS_NOTIFIER # None
    /\ VERSIONED_NOTIFIER # None

\* the four module handles are None
AllNone == rpc_vars = <<None, None, None, None>>

\* C21: after any sequence of rpc.init and rpc.cleanup calls, failed
\* cleanups included (no call aborted by a transport error), the four module
\* handles are all set or all None, and each of get_client, get_server,
\* get_metrics_notifier and get_versioned_notifier succeeds exactly when
\* they are all set.
C21_HandlesAllSetOrAllNone ==
    /\ AllSet \/ AllNone
    /\ last.op \in Accessors => (last.raised = NoException <=> AllSet)
    /\ \A name \in Accessors, publisher_id \in PublisherIds :
           access(name, publisher_id) = NoException <=> AllSet

\* C21 witness: an accessor other than get_versioned_notifier has failed
\* with the handles cleared again by a cleanup
C21_Witness ==
    /\ last.op = "get_server"
    /\ last.raised = "AssertionError"
    /\ AllNone

\* the payload's SCHEMA names a source object that kwargs does not hold
SourceMissing(cls, kwargs) ==
    \E key \in DOMAIN SCHEMA(cls) : SCHEMA(cls)[key][1] \notin DOMAIN kwargs

\* C22: a populate_schema call without the source object of some source_key
\* named in SCHEMA fails with a KeyError and leaves populated as it was; an
\* emit on a payload whose populate_schema calls have all failed that way
\* still fails its precondition.
C22_MissingSourceKeepsUnpopulated ==
    [][/\ (last'.op = "populate_schema"
             /\ SourceMissing(notif.payload.cls, last'.kwargs)) =>
               /\ last'.raised = "KeyError"
               /\ notif'.payload.populated = notif.payload.populated
       /\ (last'.op = "emit" /\ populate_called /\ ~notif.payload.populated) =>
               /\ last'.raised = "AssertionError"
               /\ last'.calls = <<>>
      ]_vars

\* C22 witness: an emit has failed its assertion on a payload on which
\* populate_schema had been called, without the source object
C22_Witness ==
    /\ Emitted
    /\ populate_called
    /\ ~notif.payload.populated
    /\ last.raised = "AssertionError"

\* C23: the populated flag is monotonic: on a constructed payload only a
\* populate_schema call that returns changes it, and only from false to
\* true; emit, whether it sends, is suppressed or fails, changes neither the
\* flag nor a field value of the payload.
C23_PopulatedMonotonic ==
    [][(notif # None /\ notif' # None) =>
        /\ notif'.payload.populated # notif.payload.populated =>
               /\ ~notif.payload.populated
               /\ notif'.payload.populated
               /\ last'.op = "populate_schema"
               /\ last'.raised = NoException
        /\ last'.op = "emit" =>
               /\ notif'.payload.populated = notif.payload.populated
               /\ notif'.payload.fields = notif.payload.fields
      ]_vars

\* C23 witness: a payload populated by populate_schema is still populated
\* after an emit whose send failed
C23_Witness ==
    /\ Emitted
    /\ populate_called
    /\ ~EmptySchema
    /\ notif.payload.populated
    /\ last.raised = "MessageDeliveryFailure"

---------------------------------------------------------------------------
(* The ports API: what the claims speak of *)

\* the step is a request that changes a port or reads one port
OnePortRequests == {"get_one", "post", "patch", "delete"}

\* the step is a list request that reaches _get_ports_collection
Listing(l) ==
    \/ l.op = "get_all"
    \/ l.op = "detail" /\ l.parent = "ports"

\* C24: when from_nodes is true, get_one, post, patch and delete raise
\* OperationNotPermitted with no lookup, no object creation and no RPC call
\* made and the stored ports as they were; a list request with no node
\* identifier raises MissingParameterValue with no lookup made.
C24_FromNodesRefusedBeforeAnyCall ==
    [][from_nodes =>
        /\ last'.op \in OnePortRequests =>
               /\ last'.raised = "OperationNotPermitted"
               /\ last'.calls = <<>>
               /\ db_ports' = db_ports
        /\ (Listing(last') /\ ~Truthy(last'.node_ident)) =>
               /\ last'.raised = "MissingParameterValue"
               /\ last'.calls = <<>>
      ]_vars

\* C24 witness: under the nodes resource a patch of a stored port was
\* refused
C24_Witness ==
    /\ from_nodes
    /\ "port-1" \in DOMAIN db_ports
    /\ last.op = "patch"
    /\ last.raised = "OperationNotPermitted"

\* the value names a node there is
NamesNode(value) == Node_get(value).raised = NoException

\* the port holds the uuid and the id of the node the value names
HoldsNode(p, value) ==
    /\ p["_node_uuid"] = Str(Node_get(value).node.uuid)
    /\ "node_id" \in DOMAIN p
    /\ p["node_id"] = Num(Node_get(value).node.id)

\* C25 as stated: setting node_uuid to a value that names no node raises
\* NodeNotFound with code 400 and leaves the port as it was; setting it to a
\* value that names a node stores the uuid and the id of the node; setting
\* it to Unset stores Unset.
C25_AsStated ==
    [][last'.op = "set_node_uuid" =>
        /\ (Truthy(last'.value) /\ ~NamesNode(last'.value)) =>
               /\ last'.raised = "NodeNotFound"
               /\ last'.code = 400
               /\ port' = port
        /\ (Truthy(last'.value) /\ NamesNode(last'.value)) =>
               /\ last'.raised = NoException
               /\ HoldsNode(port', last'.value)
        /\ last'.value = Unset => port'["_node_uuid"] = Unset
      ]_vars

\* C25: setting node_uuid to a value that differs from the stored
\* _node_uuid and names no node raises NodeNotFound with code 400 and leaves
\* the port as it was; setting it to a value that differs from the stored
\* _node_uuid and names a node stores the uuid and the id of the node;
\* setting it to Unset stores Unset.
C25_SetNodeUuid ==
    [][last'.op = "set_node_uuid" =>
        /\ (/\ Truthy(last'.value)
            /\ last'.value # port["_node_uuid"]
            /\ ~NamesNode(last'.value)) =>
               /\ last'.raised = "NodeNotFound"
               /\ last'.code = 400
               /\ port' = port
        /\ (/\ Truthy(last'.value)
            /\ last'.value # port["_node_uuid"]
            /\ NamesNode(last'.value)) =>
               /\ last'.raised = NoException
               /\ HoldsNode(port', last'.value)
        /\ last'.value = Unset => port'["_node_uuid"] = Unset
      ]_vars

\* C25 witness: a port that holds a node was set to a value that names no
\* node; the setter raised with code 400 and the port still holds a node
C25_Witness ==
    /\ port # None
    /\ last.op = "set_node_uuid"
    /\ ~NamesNode(last.value)
    /\ last.raised = "NodeNotFound"
    /\ last.code = 400
    /\ \E n \in db_nodes : HoldsNode(port, Num(n.id))

\* the ports the last step returned through _convert_with_links
Returned ==
    IF last.op = "sample" THEN {port}
    ELSE IF last.raised # NoException THEN {}
    ELSE IF last.op \in {"get_one", "post", "patch"} THEN {last.result}
    ELSE IF last.op \in {"get_all", "detail"} THEN last.result
    ELSE {}

\* the last step converted with expand=False
Collapsed ==
    \/ last.op = "get_all"
    \/ last.op = "sample" /\ ~last.expand

\* C26: every port returned through convert_with_links has node_id Unset,
\* expanded or not; a port converted with expand=False has uuid and address
\* set and nothing else but links.
C26_NodeIdNeverExposed ==
    \A p \in Returned :
        /\ "node_id" \in DOMAIN p
        /\ p["node_id"] = Unset
        /\ Collapsed =>
               /\ p["uuid"] # Unset
               /\ p["address"] # Unset
               /\ \A k \in DOMAIN p :
                      p[k] # Unset => k \in {"uuid", "address", "links"}

\* C26 witness: a list of two stored ports, each of a node, was returned
\* collapsed
C26_Witness ==
    /\ last.op = "get_all"
    /\ last.raised = NoException
    /\ Cardinality(Returned) = 2

=============================================================================
